---- MODULE Spec2Model ----
(***************************************************************************)
(* Model of package secure (handler.go): the setup-time validation done by *)
(* Use, the two header builders hpkpHeader and hstsHeader, and the         *)
(* per-request handler closure that Use registers with core.Use.           *)
(*                                                                         *)
(* Go values are represented as follows.                                   *)
(*   - a pointer to Options, HPKPOptions or HSTSOptions is a sequence of   *)
(*     length 0 (nil) or 1 (the pointee);                                  *)
(*   - a time.Duration d (int64 nanoseconds) is the record                 *)
(*     [sec |-> d / Second, nsec |-> d % Second] with Go's truncating      *)
(*     division, which is the decomposition Duration.Seconds() itself      *)
(*     uses; both fields carry the sign of d;                              *)
(*   - an error is its message, the nil error is "";                       *)
(*   - a header map is a function from header names to values.             *)
(***************************************************************************)
EXTENDS Integers, Sequences, FiniteSets, TLC

VARIABLES production, options, phase, useErr, received, request, resp, built

vars == <<production, options, phase, useErr, received, request, resp, built>>

-----------------------------------------------------------------------------
(* Bounds of the model. *)

MaxHosts == 2
MaxKeys == 2

-----------------------------------------------------------------------------
(* Package constants and durations. *)

Second == 1000000000

HSTSPreloadMinAge == 10886400

Dur(s, ns) == [sec |-> s, nsec |-> ns]

Seconds(n) == Dur(n, 0)

Nanoseconds(n) == Dur(0, n)

\* d < n for a Duration d and an untyped integer constant n: the constant
\* takes the type time.Duration, that is, it counts nanoseconds.
DurationLess(d, n) ==
    \/ d.sec < n \div Second
    \/ d.sec = n \div Second /\ d.nsec < n % Second

DurationIsZero(d) == d.sec = 0 /\ d.nsec = 0

DurationNegative(d) == d.sec < 0 \/ d.nsec < 0

Abs(n) == IF n < 0 THEN -n ELSE n

\* The magnitude fmt prints for "%.f" of d.Seconds(): the float64
\* sec + nsec/1e9 rounded to an integer, ties to even.
RoundedSeconds(d) ==
    LET whole == Abs(d.sec)
        twice == 2 * Abs(d.nsec)
    IN  IF twice > Second THEN whole + 1
        ELSE IF twice = Second
             THEN (IF whole % 2 = 0 THEN whole ELSE whole + 1)
             ELSE whole

\* fmt.Sprintf("%.f", d.Seconds()): the sign is printed for every negative
\* value, also when the magnitude rounds to zero ("-0").
FormatSeconds(d) ==
    (IF DurationNegative(d) THEN "-" ELSE "") \o ToString(RoundedSeconds(d))

\* fmt.Sprintf("%q", s) for strings without characters that need escaping.
Quote(s) == "\"" \o s \o "\""

NoErr == ""

ErrHPKPKeys == "secure: at least one key must be set when using HPKP"
ErrHPKPMaxAge == "secure: max age must be set when using HPKP"
ErrHSTSSSLForced == "secure: SSLForced must be true when using HSTS"
ErrHSTSMaxAge == "secure: max age must be set when using HSTS"
ErrHSTSPreloadAge == "secure: max age must be at least eighteen weeks when using HSTS preload"
ErrHSTSPreloadSub == "secure: subdomains must be included when using HSTS preload"

-----------------------------------------------------------------------------
(* The header builders. *)

RECURSIVE JoinKeys(_, _)
JoinKeys(keys, v) ==
    IF keys = <<>> THEN v
    ELSE JoinKeys(Tail(keys),
                  (IF v # "" THEN v \o "; " ELSE v)
                      \o "pin-sha256=" \o Quote(Head(keys)))

\* hpkpHeader without the check of lines 135-138.
hpkpHeader_NoMaxAgeCheck(o) ==
    LET p == o.HPKP[1] IN
    IF Len(p.Keys) = 0 THEN [v |-> "", err |-> ErrHPKPKeys]
    ELSE [v |-> JoinKeys(p.Keys, "")
                  \o "; " \o FormatSeconds(p.MaxAge)
                  \o (IF p.IncludeSubdomains THEN "; includeSubdomains" ELSE "")
                  \o (IF p.ReportURI # ""
                      THEN "; report-uri=" \o Quote(p.ReportURI) ELSE ""),
          err |-> NoErr]

hpkpHeader(o) ==
    LET p == o.HPKP[1] IN
    IF Len(p.Keys) = 0 THEN [v |-> "", err |-> ErrHPKPKeys]
    ELSE IF DurationIsZero(p.MaxAge) THEN [v |-> "", err |-> ErrHPKPMaxAge]
    ELSE [v |-> JoinKeys(p.Keys, "")
                  \o "; " \o FormatSeconds(p.MaxAge)
                  \o (IF p.IncludeSubdomains THEN "; includeSubdomains" ELSE "")
                  \o (IF p.ReportURI # ""
                      THEN "; report-uri=" \o Quote(p.ReportURI) ELSE ""),
          err |-> NoErr]

\* hstsHeader without the check of lines 161-164.
hstsHeader_NoSSLForcedCheck(o) ==
    LET p == o.HSTS[1] IN
    IF DurationIsZero(p.MaxAge) THEN [v |-> "", err |-> ErrHSTSMaxAge]
    ELSE IF p.Preload /\ DurationLess(p.MaxAge, HSTSPreloadMinAge)
         THEN [v |-> "", err |-> ErrHSTSPreloadAge]
    ELSE IF p.Preload /\ ~p.IncludeSubdomains
         THEN [v |-> "", err |-> ErrHSTSPreloadSub]
    ELSE [v |-> "" \o "; " \o FormatSeconds(p.MaxAge)
                  \o (IF p.IncludeSubdomains THEN "; includeSubdomains" ELSE "")
                  \o (IF p.Preload THEN "; preload" ELSE ""),
          err |-> NoErr]

hstsHeader(o) ==
    LET p == o.HSTS[1] IN
    IF ~o.SSLForced THEN [v |-> "", err |-> ErrHSTSSSLForced]
    ELSE IF DurationIsZero(p.MaxAge) THEN [v |-> "", err |-> ErrHSTSMaxAge]
    ELSE IF p.Preload /\ DurationLess(p.MaxAge, HSTSPreloadMinAge)
         THEN [v |-> "", err |-> ErrHSTSPreloadAge]
    ELSE IF p.Preload /\ ~p.IncludeSubdomains
         THEN [v |-> "", err |-> ErrHSTSPreloadSub]
    ELSE [v |-> "" \o "; " \o FormatSeconds(p.MaxAge)
                  \o (IF p.IncludeSubdomains THEN "; includeSubdomains" ELSE "")
                  \o (IF p.Preload THEN "; preload" ELSE ""),
          err |-> NoErr]

-----------------------------------------------------------------------------
(* Requests and responses as the handler sees them through core.Context. *)

HeaderNames ==
    {"Public-Key-Pins", "Strict-Transport-Security",
     "Content-Security-Policy", "X-Content-Security-Policy", "X-WebKit-CSP",
     "X-Frame-Options", "X-Content-Type-Options", "X-XSS-Protection",
     "Location", "Content-Type"}

\* A fresh c.ResponseWriter: no status written, an empty header map.  own
\* records the header names written by the closure's own Header().Set
\* statements, next whether c.Next() was called, panic the value the closure
\* panicked with.
EmptyResponse ==
    [status |-> 0,
     header |-> [k \in HeaderNames |-> <<>>],
     own |-> {},
     next |-> FALSE,
     panic |-> NoErr]

\* http.Header.Set as called by net/http itself.
HeaderSet(w, k, v) == [w EXCEPT !.header[k] = <<v>>]

\* c.ResponseWriter.Header().Set(k, v) in the closure.
Set(w, k, v) == [HeaderSet(w, k, v) EXCEPT !.own = @ \cup {k}]

\* http.Header.Get: the first value, "" when the header is absent.
Get(w, k) == IF w.header[k] = <<>> THEN "" ELSE w.header[k][1]

Has(w, k) == w.header[k] # <<>>

StatusNotFound == 404

StatusMovedPermanently == 301

\* http.NotFound, that is http.Error(w, "404 page not found", 404).
NotFound(w) ==
    [HeaderSet(HeaderSet(w, "Content-Type", "text/plain; charset=utf-8"),
               "X-Content-Type-Options", "nosniff")
        EXCEPT !.status = StatusNotFound]

\* http.Redirect for an absolute target.
Redirect(w, r, url, code) ==
    LET located == HeaderSet(w, "Location", url)
        typed == IF ~Has(w, "Content-Type") /\ r.Method \in {"GET", "HEAD"}
                 THEN HeaderSet(located, "Content-Type", "text/html; charset=utf-8")
                 ELSE located
    IN  [typed EXCEPT !.status = code]

\* url.URL.String for a URL made of scheme, host and path.
URLString(u) ==
    (IF u.Scheme # "" THEN u.Scheme \o ":" ELSE "")
        \o (IF (u.Scheme # "" \/ u.Host # "") /\ (u.Host # "" \/ u.Path # "")
            THEN "//" ELSE "")
        \o u.Host \o u.Path

-----------------------------------------------------------------------------
(* The handler closure registered by Use. *)

\* The loop of lines 69-73 leaving after its first iteration.
HostAllowed_FirstOnly(hosts, host) == Len(hosts) > 0 /\ hosts[1] = host

HostAllowed(hosts, host) == \E i \in 1..Len(hosts) : hosts[i] = host

\* Line 79 without the X-Forwarded-Proto disjunct.
IsSSL_IgnoresForwardedProto(r) == r.URL.Scheme = "https" \/ r.TLS

IsSSL(r) ==
    r.URL.Scheme = "https" \/ r.TLS \/ r.XForwardedProto = "https"

Panic(w, err) == [w EXCEPT !.panic = err]

\* Line 90 without the isSSL conjunct.
HPKPStep_AnyScheme(o, isSSL, w) ==
    IF o.HPKP # <<>>
    THEN LET h == hpkpHeader(o)
         IN  IF h.err # NoErr THEN Panic(w, h.err)
             ELSE Set(w, "Public-Key-Pins", h.v)
    ELSE w

HPKPStep(o, isSSL, w) ==
    IF isSSL /\ o.HPKP # <<>>
    THEN LET h == hpkpHeader(o)
         IN  IF h.err # NoErr THEN Panic(w, h.err)
             ELSE Set(w, "Public-Key-Pins", h.v)
    ELSE w

HSTSStep(o, w) ==
    IF w.panic = NoErr /\ o.HSTS # <<>>
    THEN LET h == hstsHeader(o)
         IN  IF h.err # NoErr THEN Panic(w, h.err)
             ELSE Set(w, "Strict-Transport-Security", h.v)
    ELSE w

CSPStep(o, w) ==
    IF o.CSP # ""
    THEN Set(Set(Set(w, "Content-Security-Policy", o.CSP),
                 "X-Content-Security-Policy", o.CSP),
             "X-WebKit-CSP", o.CSP)
    ELSE w

FrameStep(optr, w) ==
    IF optr = <<>> \/ ~optr[1].FrameAllowed
    THEN Set(w, "X-Frame-Options", "SAMEORIGIN")
    ELSE w

\* Lines 122-123 without the second Set.
DefaultHeaders_NoXSSProtection(w) == Set(w, "X-Content-Type-Options", "nosniff")

DefaultHeaders(w) ==
    Set(Set(w, "X-Content-Type-Options", "nosniff"),
        "X-XSS-Protection", "1; mode=block")

CallNext(w) == [w EXCEPT !.next = TRUE]

\* The closure applied to request r with core.Production = prod: the
\* request as the closure leaves it and the response it produced.
Handler(optr, prod, r) ==
    LET w0 == EmptyResponse
        hardened == optr # <<>> /\ prod
    IN  IF /\ hardened
           /\ Len(optr[1].AllowedHosts) > 0
           /\ ~HostAllowed(optr[1].AllowedHosts, r.URL.Host)
        THEN [request |-> r, resp |-> NotFound(w0)]
        ELSE IF hardened /\ ~IsSSL(r) /\ optr[1].SSLForced
        THEN LET url == [r.URL EXCEPT !.Scheme = "https"]
                 redirected == [r EXCEPT !.URL = url]
             IN  [request |-> redirected,
                  resp |-> Redirect(w0, redirected, URLString(url),
                                    StatusMovedPermanently)]
        ELSE LET w1 == IF hardened
                       THEN HSTSStep(optr[1], HPKPStep(optr[1], IsSSL(r), w0))
                       ELSE w0
             IN  IF w1.panic # NoErr
                 THEN [request |-> r, resp |-> w1]
                 ELSE LET w2 == IF optr # <<>> THEN CSPStep(optr[1], w1) ELSE w1
                      IN  [request |-> r,
                           resp |-> CallNext(DefaultHeaders(FrameStep(optr, w2)))]

\* The error Use panics with, NoErr when the options pass.
UseError(optr) ==
    IF optr = <<>> THEN NoErr
    ELSE LET o == optr[1]
         IN  IF o.HPKP # <<>> /\ hpkpHeader(o).err # NoErr
             THEN hpkpHeader(o).err
             ELSE IF o.HSTS # <<>> /\ hstsHeader(o).err # NoErr
                  THEN hstsHeader(o).err
                  ELSE NoErr

-----------------------------------------------------------------------------
(* The inputs the model draws from. *)

HostPool == <<"a.example", "b.example", "c.example", "d.example">>

KeyPool == <<"abc=", "def=", "ghi=", "jkl=">>

Prefixes(pool, n) == {SubSeq(pool, 1, k) : k \in 0..n}

HPKPMaxAges ==
    {Seconds(0), Nanoseconds(400000000), Seconds(-5), Seconds(5184000)}

HSTSMaxAges ==
    {Seconds(0), Nanoseconds(400000000), Seconds(-5), Dur(1, 500000000),
     Nanoseconds(10886399), Nanoseconds(10886400),
     Seconds(10886300), Seconds(10886400)}

HPKPPointers ==
    {<<>>} \cup
    {<<p>> : p \in [Keys : Prefixes(KeyPool, MaxKeys),
                    MaxAge : HPKPMaxAges,
                    IncludeSubdomains : BOOLEAN,
                    ReportURI : {"", "https://example.com/r"}]}

HSTSPointers ==
    {<<>>} \cup
    {<<p>> : p \in [MaxAge : HSTSMaxAges,
                    IncludeSubdomains : BOOLEAN,
                    Preload : BOOLEAN]}

OptionsSet ==
    [AllowedHosts : Prefixes(HostPool, MaxHosts),
     CSP : {"", "default-src 'self'"},
     FrameAllowed : BOOLEAN,
     HPKP : HPKPPointers,
     HSTS : HSTSPointers,
     SSLForced : BOOLEAN]

OptionsPointers == {<<>>} \cup {<<o>> : o \in OptionsSet}

Requests ==
    [Method : {"GET"},
     URL : [Scheme : {"http", "https"},
            Host : {"b.example", "x.example"},
            Path : {"/login"}],
     TLS : BOOLEAN,
     XForwardedProto : {"", "https"}]

-----------------------------------------------------------------------------
(* The program: Use once at setup, then one handler run per request. *)

Init ==
    /\ production \in BOOLEAN
    /\ options = <<>>
    /\ phase = "setup"
    /\ useErr = NoErr
    /\ received = <<>>
    /\ request = <<>>
    /\ resp = <<>>
    /\ built = <<>>

\* Use(options): validate, panic on an error, otherwise register the closure.
Use ==
    /\ phase = "setup"
    /\ \E optr \in OptionsPointers :
          /\ options' = optr
          /\ useErr' = UseError(optr)
          /\ phase' = IF UseError(optr) # NoErr THEN "panicked" ELSE "registered"
    /\ UNCHANGED <<production, received, request, resp, built>>

\* core runs the registered closure on an inbound request.
Handle ==
    /\ phase = "registered"
    /\ \E r \in Requests :
          LET out == Handler(options, production, r)
          IN  /\ received' = <<r>>
              /\ request' = <<out.request>>
              /\ resp' = <<out.resp>>
    /\ UNCHANGED <<production, options, phase, useErr, built>>

Next == Use \/ Handle

Spec == Init /\ [][Next]_vars

-----------------------------------------------------------------------------
(* The header builders on their own: every options value with the policy   *)
(* the builder reads, and the builder applied to it.                       *)

BuildInit ==
    /\ production = FALSE
    /\ options \in OptionsPointers \ {<<>>}
    /\ phase = "setup"
    /\ useErr = NoErr
    /\ received = <<>>
    /\ request = <<>>
    /\ resp = <<>>
    /\ built = <<>>

BuildHPKP ==
    /\ options[1].HPKP # <<>>
    /\ built' = <<[fn |-> "hpkpHeader",
                   v |-> hpkpHeader(options[1]).v,
                   err |-> hpkpHeader(options[1]).err]>>
    /\ UNCHANGED <<production, options, phase, useErr, received, request, resp>>

BuildHSTS ==
    /\ options[1].HSTS # <<>>
    /\ built' = <<[fn |-> "hstsHeader",
                   v |-> hstsHeader(options[1]).v,
                   err |-> hstsHeader(options[1]).err]>>
    /\ UNCHANGED <<production, options, phase, useErr, received, request, resp>>

BuildNext == BuildHPKP \/ BuildHSTS

BuildSpec == BuildInit /\ [][BuildNext]_vars

-----------------------------------------------------------------------------
(* Vocabulary of the properties.  These restate the conditions in the      *)
(* words of the specification, independently of the operators above.       *)

Handled == resp # <<>>

R == received[1]

W == resp[1]

O == options[1]

Hardened == production /\ options # <<>>

\* Secure-transport classification of the request as it arrived.
ClassifiedSecure(r) ==
    ~(r.URL.Scheme # "https" /\ r.TLS = FALSE /\ r.XForwardedProto # "https")

InAllowedHosts(o, r) == r.URL.Host \in {o.AllowedHosts[i] : i \in DOMAIN o.AllowedHosts}

PassedHostCheck(o, r) == o.AllowedHosts = <<>> \/ InAllowedHosts(o, r)

SecurityHeaders == HeaderNames \ {"Location", "Content-Type"}

\* maxAge >= n seconds, for n > 0.
AtLeastSeconds(d, n) == d.sec >= n

EighteenWeeks == 10886400

RECURSIVE ClaimedPins(_, _)
ClaimedPins(keys, i) ==
    IF i > Len(keys) THEN ""
    ELSE (IF i > 1 THEN "; " ELSE "")
             \o "pin-sha256=\"" \o keys[i] \o "\"" \o ClaimedPins(keys, i + 1)

\* The Public-Key-Pins value the specification describes.
ClaimedHPKPValue(p) ==
    ClaimedPins(p.Keys, 1)
        \o "; max-age=" \o FormatSeconds(p.MaxAge)
        \o (IF p.IncludeSubdomains THEN "; includeSubdomains" ELSE "")
        \o (IF p.ReportURI # "" THEN "; report-uri=\"" \o p.ReportURI \o "\"" ELSE "")

\* The Strict-Transport-Security value the specification describes.
ClaimedHSTSValue(p) ==
    "max-age=" \o FormatSeconds(p.MaxAge)
        \o (IF p.IncludeSubdomains THEN "; includeSubdomains" ELSE "")
        \o (IF p.Preload THEN "; preload" ELSE "")

\* A policy the specification calls invalid for a missing field or for a
\* transport-security policy without SSLForced.
InvalidPolicy(o) ==
    \/ o.HPKP # <<>> /\ (o.HPKP[1].Keys = <<>> \/ DurationIsZero(o.HPKP[1].MaxAge))
    \/ o.HSTS # <<>> /\ (~o.SSLForced \/ DurationIsZero(o.HSTS[1].MaxAge))

\* The numbers of at least 1 that a max age of the model can round to.
PositiveAges ==
    {n \in {RoundedSeconds(d) : d \in HPKPMaxAges \cup HSTSMaxAges} : n >= 1}

BuiltHPKP == built # <<>> /\ built[1].fn = "hpkpHeader"

BuiltHSTS == built # <<>> /\ built[1].fn = "hstsHeader"

-----------------------------------------------------------------------------
(* C1: with sslForced, preload and a non-zero maxAge, hstsHeader succeeds  *)
(* exactly when maxAge is at least 10,886,400 seconds and                  *)
(* includeSubdomains is set.                                               *)
C1_PreloadNeedsEighteenWeeks ==
    (/\ BuiltHSTS
     /\ O.SSLForced
     /\ O.HSTS[1].Preload
     /\ ~DurationIsZero(O.HSTS[1].MaxAge))
    => (built[1].err = NoErr
          <=> (/\ AtLeastSeconds(O.HSTS[1].MaxAge, EighteenWeeks)
               /\ O.HSTS[1].IncludeSubdomains))

(* C2: for a key-pinning policy with keys and a non-zero maxAge,           *)
(* hpkpHeader returns the pins joined by "; ", then "; max-age=<seconds>", *)
(* then the optional includeSubdomains and report-uri directives.          *)
C2_HPKPValueAsSpecified ==
    (/\ BuiltHPKP
     /\ O.HPKP[1].Keys # <<>>
     /\ ~DurationIsZero(O.HPKP[1].MaxAge))
    => /\ built[1].err = NoErr
       /\ built[1].v = ClaimedHPKPValue(O.HPKP[1])

(* C3: for a valid transport-security policy hstsHeader returns            *)
(* "max-age=<seconds>" followed by the optional "; includeSubdomains" and  *)
(* "; preload", with no leading separator.                                 *)
C3_HSTSValueAsSpecified ==
    (/\ BuiltHSTS
     /\ O.SSLForced
     /\ ~DurationIsZero(O.HSTS[1].MaxAge)
     /\ O.HSTS[1].Preload
          => (/\ AtLeastSeconds(O.HSTS[1].MaxAge, EighteenWeeks)
              /\ O.HSTS[1].IncludeSubdomains))
    => /\ built[1].err = NoErr
       /\ built[1].v = ClaimedHSTSValue(O.HSTS[1])

-----------------------------------------------------------------------------
(* C4 as stated: every response the closure produces, the not-found        *)
(* rejection and the redirect included, carries                            *)
(* X-Content-Type-Options: nosniff and X-XSS-Protection: 1; mode=block.    *)
C4_DefaultHeadersOnEveryOutcome ==
    Handled
    => /\ Get(W, "X-Content-Type-Options") = "nosniff"
       /\ Get(W, "X-XSS-Protection") = "1; mode=block"

(* C4 as amended: for every options value (nil included), in either mode,  *)
(* every response that is neither the not-found rejection nor the          *)
(* redirect carries both headers, written by the closure, and is passed    *)
(* on to the next handler.                                                 *)
C4_DefaultHeadersUnlessShortCircuit ==
    (Handled /\ W.status \notin {StatusNotFound, StatusMovedPermanently})
    => /\ Get(W, "X-Content-Type-Options") = "nosniff"
       /\ Get(W, "X-XSS-Protection") = "1; mode=block"
       /\ {"X-Content-Type-Options", "X-XSS-Protection"} \subseteq W.own
       /\ W.next

C4_Witness ==
    /\ Handled
    /\ Hardened
    /\ O.FrameAllowed
    /\ O.CSP = ""
    /\ W.status = 0
    /\ Has(W, "X-XSS-Protection")

(* C5: in production with options, a request that passed the host check    *)
(* is answered 301 exactly when it is not classified secure and SSLForced  *)
(* is set; the Location is the request URL with the scheme https, and on   *)
(* the redirect the closure sets no security header and does not call      *)
(* the next handler.                                                       *)
C5_RedirectIffInsecureAndForced ==
    (Handled /\ Hardened /\ PassedHostCheck(O, R))
    => /\ W.status = StatusMovedPermanently
            <=> (~ClassifiedSecure(R) /\ O.SSLForced)
       /\ W.status = StatusMovedPermanently
            => /\ Get(W, "Location") = "https://" \o R.URL.Host \o R.URL.Path
               /\ request[1].URL = [R.URL EXCEPT !.Scheme = "https"]
               /\ W.own = {}
               /\ \A k \in SecurityHeaders : ~Has(W, k)
               /\ ~W.next

C5_Witness ==
    /\ Handled
    /\ Hardened
    /\ O.AllowedHosts # <<>>
    /\ InAllowedHosts(O, R)
    /\ O.HSTS # <<>>
    /\ O.CSP # ""
    /\ W.status = StatusMovedPermanently

(* C6: in production with a non-empty AllowedHosts, a request whose host   *)
(* is not listed gets the not-found response: the closure sets no header,  *)
(* issues no redirect and does not call the next handler; a listed host,   *)
(* or any host when the list is empty, is never rejected.                  *)
C6_HostCheck ==
    (Handled /\ Hardened)
    => IF O.AllowedHosts # <<>> /\ ~InAllowedHosts(O, R)
       THEN /\ W.status = StatusNotFound
            /\ W.own = {}
            /\ \A k \in SecurityHeaders \ {"X-Content-Type-Options"} : ~Has(W, k)
            /\ ~Has(W, "Location")
            /\ request[1] = R
            /\ ~W.next
       ELSE W.status # StatusNotFound

C6_Witness ==
    /\ Handled
    /\ Hardened
    /\ Len(O.AllowedHosts) = 2
    /\ ~InAllowedHosts(O, R)
    /\ ~ClassifiedSecure(R)
    /\ O.SSLForced
    /\ W.status = StatusNotFound

(* C7: Use panics, and registers nothing, for every options value with a   *)
(* key-pinning policy that has no keys or a zero maxAge, and for every     *)
(* options value with a transport-security policy while SSLForced is       *)
(* false or with a zero maxAge; afterwards no request is handled and no    *)
(* response is produced.                                                   *)
C7_InvalidOptionsNeverServe ==
    /\ (phase # "setup" /\ options # <<>> /\ InvalidPolicy(O))
          => phase = "panicked" /\ useErr # NoErr
    /\ phase = "panicked" => ~Handled /\ received = <<>>

C7_Witness ==
    /\ phase = "panicked"
    /\ O.HPKP # <<>>
    /\ O.HPKP[1].Keys # <<>>
    /\ DurationIsZero(O.HPKP[1].MaxAge)
    /\ O.HSTS = <<>>

(* C8: Public-Key-Pins is never set on the response to a request that is   *)
(* not classified secure; in production, for a request that passed the     *)
(* host check and was not redirected, it is set exactly when the request   *)
(* is classified secure and a key-pinning policy is present.               *)
C8_PinsOnlyOnSecure ==
    Handled
    => /\ ~ClassifiedSecure(R) => ~Has(W, "Public-Key-Pins")
       /\ (/\ Hardened
           /\ PassedHostCheck(O, R)
           /\ W.status # StatusMovedPermanently)
          => (Has(W, "Public-Key-Pins")
                <=> (ClassifiedSecure(R) /\ O.HPKP # <<>>))

C8_Witness ==
    /\ Handled
    /\ Hardened
    /\ ~ClassifiedSecure(R)
    /\ O.HPKP # <<>>
    /\ ~O.SSLForced
    /\ W.status = 0

(* C9: once Use has accepted the options, Strict-Transport-Security is     *)
(* never set on the response to a request that is not classified secure.   *)
C9_NoHSTSOnInsecure ==
    (Handled /\ ~ClassifiedSecure(R))
    => ~Has(W, "Strict-Transport-Security")

C9_Witness ==
    /\ Handled
    /\ production
    /\ ~ClassifiedSecure(R)
    /\ options # <<>>
    /\ O.HSTS # <<>>
    /\ PassedHostCheck(O, R)

(* C10: for every options value the builders accept, the number they       *)
(* serialize for max-age is an integer of at least 1.                      *)
C10_SerializedAgeAtLeastOne ==
    /\ (BuiltHPKP /\ built[1].err = NoErr)
          => \E n \in PositiveAges :
                built[1].v =
                    JoinKeys(O.HPKP[1].Keys, "") \o "; " \o ToString(n)
                        \o (IF O.HPKP[1].IncludeSubdomains
                            THEN "; includeSubdomains" ELSE "")
                        \o (IF O.HPKP[1].ReportURI # ""
                            THEN "; report-uri=" \o Quote(O.HPKP[1].ReportURI)
                            ELSE "")
    /\ (BuiltHSTS /\ built[1].err = NoErr)
          => \E n \in PositiveAges :
                built[1].v =
                    "; " \o ToString(n)
                        \o (IF O.HSTS[1].IncludeSubdomains
                            THEN "; includeSubdomains" ELSE "")
                        \o (IF O.HSTS[1].Preload THEN "; preload" ELSE "")

====
